---- MODULE Spec2Model ----
(***************************************************************************)
(* BaseRawReader (ptsa/data/readers/BaseRawReader.py): construction,       *)
(* read(), the flat-file backend read_binary() with its channel and offset *)
(* loops, the container backend read_hdf5(), and the assembly of the       *)
(* labelled result.                                                        *)
(***************************************************************************)
EXTENDS Integers, Sequences, FiniteSets, TLC

\* ---------------------------------------------------------------- bounds
MaxChannels == 2
MaxOffsets == 2
MaxReadSize == 2
MaxBytes == 4
MaxSamples == 1
MaxReads == 2

\* ------------------------------------------------------------- constants
NaN == -1000
Absent == "absent"
Gain == 2

Min(a, b) == IF a < b THEN a ELSE b
Range(s) == {s[i] : i \in 1..Len(s)}
SeqsUpTo(S, n) == UNION {[1..k -> S] : k \in 0..n}
\* Lists of at most n entries of S, no entry twice.
ListsUpTo(S, n) ==
    {s \in SeqsUpTo(S, Min(n, Cardinality(S))) :
        \A i, j \in 1..Len(s) : i # j => s[i] # s[j]}
Fill(n, v) == [i \in 1..n |-> v]

\* Channel labels are fixed-width strings; astype(int) turns them into ports.
ChannelLabels == {"001", "002"}
AsInt(label) == IF label = "001" THEN 1 ELSE 2
PortIds == {1, 2}
StartValues == {-1, 0, 1}
DataRoots == {"eeg", "eeg.h5"}
EndsWithH5(root) == root = "eeg.h5"

FileFormat(size, fs) == [data_size |-> size, format_string |-> fs]
FormatNames == {"single", "float32", "short", "int16", "int32", "double", "float64"}
file_format_dict ==
    [n \in FormatNames |->
        CASE n \in {"single", "float32"} -> FileFormat(4, "f")
          [] n \in {"short", "int16"}    -> FileFormat(2, "h")
          [] n = "int32"                 -> FileFormat(4, "i")
          [] n \in {"double", "float64"} -> FileFormat(8, "d")]
ParamFormats == FormatNames \cup {Absent, "bogus"}

\* What the constructor's two nested try blocks do with params_dict['format'].
ResolveFormatSwallow(p) ==
    IF p.format \in FormatNames
    THEN [ok |-> TRUE, file_format |-> file_format_dict[p.format], warn |-> FALSE]
    ELSE [ok |-> TRUE, file_format |-> file_format_dict["int16"], warn |-> TRUE]
ResolveFormat(p) ==
    IF p.format = Absent
    THEN [ok |-> TRUE, file_format |-> file_format_dict["int16"], warn |-> TRUE]
    ELSE IF p.format \in FormatNames
    THEN [ok |-> TRUE, file_format |-> file_format_dict[p.format], warn |-> FALSE]
    ELSE [ok |-> FALSE, file_format |-> file_format_dict["int16"], warn |-> FALSE]

VARIABLES
    params, dataroot, fsize, ports, nsamples, by_row,
    channels, start_offsets, read_size, file_format, params_dict,
    pc, c, e, efile, eventdata, read_ok_mask,
    opened, log, results, requested

env == <<params, dataroot, fsize, ports, nsamples, by_row>>
attrs == <<channels, start_offsets>>
locals == <<c, e, efile, eventdata, read_ok_mask>>
vars == <<params, dataroot, fsize, ports, nsamples, by_row,
          channels, start_offsets, read_size, file_format, params_dict,
          pc, c, e, efile, eventdata, read_ok_mask,
          opened, log, results, requested>>

\* ------------------------------------------------------- disk contents
\* The k-th (0-based) sample of a channel file, decoded under a format.  The
\* floating formats can hold a stored not-a-number.
FileSample(label, k, fmt) ==
    IF fmt.format_string \in {"f", "d"} /\ label = "002" /\ k = 0
    THEN NaN
    ELSE AsInt(label) * 10 + k
\* The k-th (0-based) sample of a port in the container.
PortSample(port, k) == port * 10 + k
\* eeg_timeseries: samples x ports when by_row is set, ports x samples otherwise.
Timeseries ==
    IF by_row = "true"
    THEN [k \in 1..nsamples |-> [p \in 1..Len(ports) |-> PortSample(ports[p], k - 1)]]
    ELSE [p \in 1..Len(ports) |-> [k \in 1..nsamples |-> PortSample(ports[p], k - 1)]]

\* ------------------------------------------------------------- arrays
NoArray == [shape |-> <<>>, data |-> <<>>]
\* np.empty((nc, no, n)) * np.nan
EmptyNaN(nc, no, n) ==
    [shape |-> <<nc, no, n>>, data |-> Fill(nc, Fill(no, Fill(n, NaN)))]
\* np.ones((nc, no)).astype(bool)
Ones(nc, no) == [shape |-> <<nc, no>>, data |-> Fill(nc, Fill(no, TRUE))]
Mul(x, g) == IF x = NaN THEN NaN ELSE x * g
\* eventdata *= gain
Scale(a, g) ==
    [shape |-> a.shape,
     data |-> [i \in DOMAIN a.data |->
                 [j \in DOMAIN a.data[i] |->
                    [k \in DOMAIN a.data[i][j] |-> Mul(a.data[i][j][k], g)]]]]
\* np.arange(n)
Arange(n) == [i \in 1..(IF n > 0 THEN n ELSE 0) |-> i - 1]
\* DataArray(data, dims, coords): every dimension coordinate must be as long as
\* its dimension of the data.
CoordsFitUnchecked(shape, coords) == TRUE
CoordsFit(shape, coords) ==
    /\ Len(coords.channels) = shape[1]
    /\ Len(coords.start_offsets) = shape[2]
    /\ Len(coords.offsets) = shape[3]

Returned(tensor, coords, mask) ==
    [status |-> "returned", err |-> "", tensor |-> tensor, coords |-> coords, mask |-> mask]
Failed(err) ==
    [status |-> "failed", err |-> err, tensor |-> NoArray,
     coords |-> [channels |-> <<>>, start_offsets |-> <<>>, offsets |-> <<>>],
     mask |-> NoArray]

\* --------------------------------------------------------------- Init
\* Files of channels nobody asks for are never touched: they are left absent.
FileSizeMaps(chs) ==
    {f \in [ChannelLabels -> -1..MaxBytes] :
        \A l \in ChannelLabels \ Range(chs) : f[l] = -1}
PortLists == ListsUpTo(PortIds, Cardinality(PortIds))

Init ==
    /\ dataroot \in DataRoots
    /\ channels \in ListsUpTo(ChannelLabels, MaxChannels)
    /\ start_offsets \in ListsUpTo(StartValues, MaxOffsets)
    /\ read_size \in -1..MaxReadSize
    /\ params \in [format : ParamFormats, gain : {Gain}, samplerate : {1000}]
    /\ IF EndsWithH5(dataroot)
       THEN /\ fsize = [l \in ChannelLabels |-> -1]
            /\ ports \in PortLists
            /\ nsamples \in 0..MaxSamples
            /\ by_row \in {Absent, "true", "false"}
       ELSE /\ fsize \in FileSizeMaps(channels)
            /\ ports = <<>>
            /\ nsamples = 0
            /\ by_row = Absent
    /\ file_format = file_format_dict["int16"]
    /\ params_dict = [format |-> Absent, gain |-> 0, samplerate |-> 0]
    /\ pc = "new"
    /\ c = 0 /\ e = 0 /\ efile = "" /\ eventdata = NoArray /\ read_ok_mask = NoArray
    /\ opened = {} /\ log = {} /\ results = <<>>
    /\ requested = read_size

\* ------------------------------------------------------------ __init__
Construct ==
    /\ pc = "new"
    /\ params_dict' = params
    /\ LET r == ResolveFormat(params) IN
         /\ file_format' = r.file_format
         /\ log' = IF r.warn THEN log \cup {"MissingFormatSpec"} ELSE log
         /\ pc' = IF r.ok THEN "ready" ELSE "ctor_failed"
    /\ UNCHANGED <<env, attrs, read_size, locals, opened, results, requested>>

\* An exception leaves read(): the locals are dropped, an open channel file is
\* closed by its with block.
FailWith(err) ==
    /\ pc' = "ready"
    /\ results' = Append(results, Failed(err))
    /\ c' = 0 /\ e' = 0 /\ efile' = ""
    /\ eventdata' = NoArray /\ read_ok_mask' = NoArray

\* --------------------------------------------------------- read_binary
\* int(self.get_file_size() / self.file_format.data_size) when read_size < 0
ResolveReadSizeBytes(rs, size, ds) == IF rs < 0 THEN size ELSE rs
ResolveReadSize(rs, size, ds) == IF rs < 0 THEN size \div ds ELSE rs

\* efile.seek(pos, 0); efile.read(n): the number of bytes handed back.
BytesRead(label, pos, n) ==
    LET avail == fsize[label] - pos IN
    IF avail <= 0 THEN 0 ELSE Min(n, avail)

\* struct.unpack('<' + str(int(len(data) / data_size)) + format_string, data)
Unpack(label, start_offset, nbytes, fmt) ==
    LET count == nbytes \div fmt.data_size IN
    [ok |-> count * fmt.data_size = nbytes,
     data |-> [j \in 1..count |-> FileSample(label, start_offset + j - 1, fmt)]]

\* The body of the offset loop for one start offset of one open channel file.
SliceResultNoReject(label, start_offset, n, fmt) ==
    IF start_offset < 0
    THEN [err |-> "", valid |-> TRUE, write |-> FALSE, data |-> <<>>,
          note |-> "NegativeOffset"]
    ELSE LET nbytes == BytesRead(label, fmt.data_size * start_offset, fmt.data_size * n)
             u == Unpack(label, start_offset, nbytes, fmt)
         IN IF ~u.ok
            THEN [err |-> "struct.error", valid |-> FALSE, write |-> FALSE,
                  data |-> <<>>, note |-> ""]
            ELSE IF Len(u.data) < n
            THEN [err |-> "", valid |-> FALSE, write |-> FALSE, data |-> <<>>,
                  note |-> "TruncatedRead"]
            ELSE [err |-> "", valid |-> TRUE, write |-> TRUE, data |-> u.data,
                  note |-> ""]
SliceResult(label, start_offset, n, fmt) ==
    IF start_offset < 0
    THEN [err |-> "", valid |-> FALSE, write |-> FALSE, data |-> <<>>,
          note |-> "NegativeOffset"]
    ELSE LET nbytes == BytesRead(label, fmt.data_size * start_offset, fmt.data_size * n)
             u == Unpack(label, start_offset, nbytes, fmt)
         IN IF ~u.ok
            THEN [err |-> "struct.error", valid |-> FALSE, write |-> FALSE,
                  data |-> <<>>, note |-> ""]
            ELSE IF Len(u.data) < n
            THEN [err |-> "", valid |-> FALSE, write |-> FALSE, data |-> <<>>,
                  note |-> "TruncatedRead"]
            ELSE [err |-> "", valid |-> TRUE, write |-> TRUE, data |-> u.data,
                  note |-> ""]

\* read() dispatches to read_binary(): read_size is resolved, the tensor and
\* the mask are allocated.
ReadBinaryBegin ==
    /\ pc = "ready" /\ ~EndsWithH5(dataroot) /\ Len(results) < MaxReads
    /\ opened' = {}
    /\ IF read_size < 0 /\ channels = <<>>
       THEN FailWith("IndexError") /\ UNCHANGED read_size
       ELSE IF read_size < 0 /\ fsize[channels[1]] < 0
       THEN FailWith("OSError") /\ UNCHANGED read_size
       ELSE LET size == IF read_size < 0 THEN fsize[channels[1]] ELSE 0
                n == ResolveReadSize(read_size, size, file_format.data_size)
            IN /\ read_size' = n
               /\ eventdata' = EmptyNaN(Len(channels), Len(start_offsets), n)
               /\ read_ok_mask' = Ones(Len(channels), Len(start_offsets))
               /\ c' = 1 /\ e' = 0 /\ efile' = ""
               /\ pc' = "loop_c"
               /\ UNCHANGED results
    /\ UNCHANGED <<env, attrs, file_format, params_dict, log, requested>>

\* with open(eegfname, 'rb') as efile
OpenChannel ==
    /\ pc = "loop_c" /\ c <= Len(channels)
    /\ IF fsize[channels[c]] < 0
       THEN FailWith("IOError") /\ UNCHANGED opened
       ELSE /\ efile' = channels[c]
            /\ opened' = opened \cup {channels[c]}
            /\ e' = 1
            /\ pc' = "loop_e"
            /\ UNCHANGED <<c, eventdata, read_ok_mask, results>>
    /\ UNCHANGED <<env, attrs, read_size, file_format, params_dict, log, requested>>

ReadOffset ==
    /\ pc = "loop_e" /\ e <= Len(start_offsets)
    /\ LET r == SliceResult(efile, start_offsets[e], read_size, file_format) IN
       IF r.err # ""
       THEN FailWith(r.err) /\ UNCHANGED log
       ELSE /\ read_ok_mask' =
                 IF r.valid THEN read_ok_mask
                 ELSE [read_ok_mask EXCEPT !.data[c][e] = FALSE]
            /\ eventdata' =
                 IF r.write THEN [eventdata EXCEPT !.data[c][e] = r.data]
                 ELSE eventdata
            /\ log' = IF r.note = "" THEN log ELSE log \cup {r.note}
            /\ e' = e + 1
            /\ UNCHANGED <<pc, c, efile, results>>
    /\ UNCHANGED <<env, attrs, read_size, file_format, params_dict, opened, requested>>

\* the with block ends: the channel file is closed, next channel
CloseChannel ==
    /\ pc = "loop_e" /\ e > Len(start_offsets)
    /\ efile' = "" /\ e' = 0 /\ c' = c + 1
    /\ pc' = "loop_c"
    /\ UNCHANGED <<env, attrs, read_size, file_format, params_dict, eventdata,
                   read_ok_mask, opened, log, results, requested>>

\* return eventdata, read_ok_mask
ReadBinaryReturn ==
    /\ pc = "loop_c" /\ c > Len(channels)
    /\ pc' = "assemble"
    /\ UNCHANGED <<env, attrs, read_size, file_format, params_dict, locals,
                   opened, log, results, requested>>

\* ----------------------------------------------------------- read_hdf5
\* np.in1d(ports, self.channels.astype(int)): a boolean selection over ports;
\* indexing with it keeps the selected ports in the order of the ports index.
ChannelsToRead ==
    LET wanted == {AsInt(channels[i]) : i \in 1..Len(channels)} IN
    SelectSeq([i \in 1..Len(ports) |-> i], LAMBDA i : ports[i] \in wanted)

\* timeseries[:, channels_to_read].T or timeseries[channels_to_read, :],
\* then eventdata[:, None, :]
WholeSelection ==
    LET sel == ChannelsToRead
        ts == Timeseries
    IN [shape |-> <<Len(sel), 1, nsamples>>,
        data |-> [r \in 1..Len(sel) |->
                    << IF by_row = "true"
                       THEN [k \in 1..nsamples |-> ts[k][sel[r]]]
                       ELSE ts[sel[r]] >>]]

\* read() dispatches to read_hdf5().  With a resolved read_size the allocation
\* calls len() with three arguments, which raises before the offset loop.
ReadHdf5 ==
    /\ pc = "ready" /\ EndsWithH5(dataroot) /\ Len(results) < MaxReads
    /\ opened' = {dataroot}
    /\ IF read_size < 0
       THEN /\ eventdata' = WholeSelection
            /\ read_ok_mask' = Ones(Len(channels), 1)
            /\ pc' = "assemble"
            /\ UNCHANGED <<c, e, efile, results>>
       ELSE FailWith("TypeError")
    /\ UNCHANGED <<env, attrs, read_size, file_format, params_dict, log, requested>>

\* ---------------------------------------------------- read(), assembly
Assemble ==
    /\ pc = "assemble"
    /\ LET scaled == Scale(eventdata, params_dict.gain)
           coords == [channels |-> channels,
                      start_offsets |-> start_offsets,
                      offsets |-> Arange(read_size)]
       IN IF CoordsFit(scaled.shape, coords)
          THEN /\ results' = Append(results, Returned(scaled, coords, read_ok_mask))
               /\ pc' = "ready"
               /\ c' = 0 /\ e' = 0 /\ efile' = ""
               /\ eventdata' = NoArray /\ read_ok_mask' = NoArray
          ELSE FailWith("ValueError")
    /\ UNCHANGED <<env, attrs, read_size, file_format, params_dict, opened, log, requested>>

Next ==
    \/ Construct
    \/ ReadBinaryBegin
    \/ OpenChannel
    \/ ReadOffset
    \/ CloseChannel
    \/ ReadBinaryReturn
    \/ ReadHdf5
    \/ Assemble

Spec == Init /\ [][Next]_vars

\* ============================================================ properties
Binary == ~EndsWithH5(dataroot)
IsReturned(r) == r.status = "returned"
SliceHasNaN(s) == \E k \in 1..Len(s) : s[k] = NaN
SliceAllNaN(s) == \A k \in 1..Len(s) : s[k] = NaN
\* The loops of read_binary are running or have just ended, and slice (ci, oi)
\* has been dealt with.
InLoops == Binary /\ pc \in {"loop_c", "loop_e", "assemble"}
Processed(ci, oi) ==
    \/ pc = "assemble"
    \/ ci < c
    \/ ci = c /\ pc = "loop_e" /\ oi < e
\* One of the n samples stored in the file from a start offset on is itself NaN.
StoredNaN(ci, oi, n) ==
    /\ Binary
    /\ start_offsets[oi] >= 0
    /\ \E j \in 0..(n - 1) :
          FileSample(channels[ci], start_offsets[oi] + j, file_format) = NaN
\* The complete samples a channel file holds from a start offset to its end.
SamplesFrom(label, start_offset) ==
    LET left == fsize[label] - file_format.data_size * start_offset IN
    IF left <= 0 THEN 0 ELSE left \div file_format.data_size
\* The n samples of a channel file from a start offset on, times a gain.
Window(label, start_offset, n, g) ==
    [j \in 1..n |-> Mul(FileSample(label, start_offset + j - 1, file_format), g)]
MissingChannel == \E i \in 1..Len(channels) : AsInt(channels[i]) \notin Range(ports)

\* ------------------------------------------------------------------- C1
\* C1 as stated: in every slice already processed by the loops, and in every
\* returned pair, mask[c][o] is true if and only if tensor[c][o] holds no
\* sentinel, for any read_size and any file contents.
C1_Original ==
    /\ InLoops =>
         \A ci \in 1..Len(channels), oi \in 1..Len(start_offsets) :
            Processed(ci, oi) =>
               (read_ok_mask.data[ci][oi] <=> ~SliceHasNaN(eventdata.data[ci][oi]))
    /\ \A i \in 1..Len(results) :
         IsReturned(results[i]) =>
            \A ci \in 1..results[i].tensor.shape[1], oi \in 1..results[i].tensor.shape[2] :
               results[i].mask.data[ci][oi]
                  <=> ~SliceHasNaN(results[i].tensor.data[ci][oi])

\* C1 amended: when the sample axis is not empty and none of the samples stored
\* in the window is itself a NaN, mask[c][o] is true if and only if
\* tensor[c][o] holds no sentinel; in the processed slices of the running loops
\* and in every returned pair.
C1_MaskIffNoSentinel ==
    /\ InLoops =>
         \A ci \in 1..Len(channels), oi \in 1..Len(start_offsets) :
            (Processed(ci, oi) /\ read_size >= 1 /\ ~StoredNaN(ci, oi, read_size)) =>
               (read_ok_mask.data[ci][oi] <=> ~SliceHasNaN(eventdata.data[ci][oi]))
    /\ \A i \in 1..Len(results) :
         IsReturned(results[i]) =>
            \A ci \in 1..results[i].tensor.shape[1], oi \in 1..results[i].tensor.shape[2] :
               (/\ results[i].tensor.shape[3] >= 1
                /\ ~StoredNaN(ci, oi, results[i].tensor.shape[3])) =>
                  (results[i].mask.data[ci][oi]
                     <=> ~SliceHasNaN(results[i].tensor.data[ci][oi]))

\* A returned pair with a non-empty sample axis that has a valid slice and an
\* invalid one.
C1_Witness ==
    \E i \in 1..Len(results) :
       /\ IsReturned(results[i])
       /\ results[i].tensor.shape[3] >= 1
       /\ \E ci \in 1..results[i].tensor.shape[1], oi, oj \in 1..results[i].tensor.shape[2] :
            /\ results[i].mask.data[ci][oi]
            /\ ~results[i].mask.data[ci][oj]
            /\ ~StoredNaN(ci, oi, results[i].tensor.shape[3])
            /\ ~StoredNaN(ci, oj, results[i].tensor.shape[3])

\* ------------------------------------------------------------------- C2
\* C2: in every returned pair, a slice whose start offset is negative has a
\* false mask and is all sentinel, and every other slice of the channel is what
\* its own offset alone decides: the window of the file times the gain with a
\* true mask, or all sentinel with a false mask.
C2_NegativeOffsetInvalid ==
    \A i \in 1..Len(results) :
       IsReturned(results[i]) =>
          \A ci \in 1..results[i].tensor.shape[1], oi \in 1..results[i].tensor.shape[2] :
             LET t == results[i].tensor.data[ci][oi]
                 m == results[i].mask.data[ci][oi]
                 n == results[i].tensor.shape[3]
             IN IF start_offsets[oi] < 0
                THEN ~m /\ SliceAllNaN(t)
                ELSE Binary =>
                       IF SamplesFrom(channels[ci], start_offsets[oi]) >= n
                       THEN m /\ t = Window(channels[ci], start_offsets[oi], n, params_dict.gain)
                       ELSE ~m /\ SliceAllNaN(t)

\* ------------------------------------------------------------------- C3
\* C3: in the flat-file backend no read is aborted by a short window, and for
\* every processed slice with a non-negative start offset: with fewer than
\* read_size samples left in the file the mask is false and the slice all
\* sentinel, otherwise the slice is the window of the file and the mask true.
C3_TruncatedSliceInvalid ==
    Binary =>
      /\ \A i \in 1..Len(results) :
            ~IsReturned(results[i]) => results[i].err \in {"IndexError", "OSError", "IOError"}
      /\ InLoops =>
           \A ci \in 1..Len(channels), oi \in 1..Len(start_offsets) :
              (Processed(ci, oi) /\ start_offsets[oi] >= 0) =>
                 IF SamplesFrom(channels[ci], start_offsets[oi]) < read_size
                 THEN /\ ~read_ok_mask.data[ci][oi]
                      /\ SliceAllNaN(eventdata.data[ci][oi])
                 ELSE /\ read_ok_mask.data[ci][oi]
                      /\ eventdata.data[ci][oi]
                           = Window(channels[ci], start_offsets[oi], read_size, 1)

\* ------------------------------------------------------------------- C4
\* C4: every returned pair has a tensor of shape (len(channels),
\* len(start_offsets), R) and a mask of shape (len(channels),
\* len(start_offsets)), sample labels 0..R-1, where R is the resolved
\* read_size: the caller's when it is not -1, else the first channel's file
\* length divided by the byte width.
C4_ShapeAndReadSize ==
    \A i \in 1..Len(results) :
       IsReturned(results[i]) =>
          /\ read_size >= 0
          /\ results[i].tensor.shape = <<Len(channels), Len(start_offsets), read_size>>
          /\ results[i].mask.shape = <<Len(channels), Len(start_offsets)>>
          /\ results[i].coords.offsets = Arange(read_size)
          /\ IF requested # -1
             THEN read_size = requested
             ELSE /\ channels # <<>>
                  /\ read_size = fsize[channels[1]] \div file_format.data_size

C6_ChannelOrder ==
    /\ (pc = "assemble" /\ ~Binary /\ ~MissingChannel) =>
         \A r \in 1..Len(eventdata.data) :
            /\ r <= Len(channels)
            /\ \A k \in 1..Len(eventdata.data[r][1]) :
                  eventdata.data[r][1][k] = PortSample(AsInt(channels[r]), k - 1)
    /\ (pc = "assemble" /\ Binary) =>
         \A r \in 1..Len(eventdata.data), oi \in 1..Len(start_offsets) :
            \/ SliceAllNaN(eventdata.data[r][oi])
            \/ eventdata.data[r][oi] = Window(channels[r], start_offsets[oi], read_size, 1)
    /\ \A i \in 1..Len(results) :
         IsReturned(results[i]) => results[i].coords.channels = channels

\* ------------------------------------------------------------------- C7
\* C7: construction fails exactly when the format key is present with a name
\* outside the table, and then nothing has been opened or read; with the key
\* absent it succeeds with int16 (2 bytes, 'h') and a warning; with a name of
\* the table it succeeds with that entry.
C7_FormatAtConstruction ==
    pc # "new" =>
      /\ pc = "ctor_failed" <=> params.format \notin (FormatNames \cup {Absent})
      /\ pc = "ctor_failed" => (opened = {} /\ results = <<>>)
      /\ (pc # "ctor_failed" /\ params.format = Absent) =>
            /\ file_format = FileFormat(2, "h")
            /\ "MissingFormatSpec" \in log
      /\ (pc # "ctor_failed" /\ params.format \in FormatNames) =>
            file_format = file_format_dict[params.format]

\* A construction that failed on an unsupported format name.
C7_Witness == pc = "ctor_failed" /\ params.format = "bogus"

\* ------------------------------------------------------------------- C8
\* C8: a read with no channel or no start offset ends in an error and opens
\* no channel file.
C8_EmptyRequestRejected ==
    (channels = <<>> \/ start_offsets = <<>>) =>
       /\ opened \cap ChannelLabels = {}
       /\ \A i \in 1..Len(results) : ~IsReturned(results[i])

C10_ContainerWindows ==
    (~Binary /\ requested >= 0 /\ channels # <<>> /\ start_offsets # <<>> /\ ~MissingChannel) =>
       \A i \in 1..Len(results) :
          /\ IsReturned(results[i])
          /\ \A ci \in 1..Len(channels), oi \in 1..Len(start_offsets) :
                IF start_offsets[oi] >= 0 /\ start_offsets[oi] + requested <= nsamples
                THEN /\ results[i].mask.data[ci][oi]
                     /\ ~SliceHasNaN(results[i].tensor.data[ci][oi])
                ELSE /\ ~results[i].mask.data[ci][oi]
                     /\ SliceAllNaN(results[i].tensor.data[ci][oi])

====
